---- MODULE Spec2Model ----
(***************************************************************************)
(* State-machine model of the SMO support-vector classifier defined in     *)
(* src/SVM_final_main.ipynb (class methods __init__, init_args,            *)
(* computer_product_matrix, kernel, function_g, create_E, fit,             *)
(* examine_example, update_alpha_pair, clip_alpha, predict, score,         *)
(* decision_function, support_vectors_, support_vector_indices_).          *)
(*                                                                         *)
(* Numbers.  Python floats are modelled as exact rationals <<n, d>> in     *)
(* lowest terms with d > 0, so the model follows the real-number           *)
(* semantics of every formula of the code; IEEE rounding is not modelled.  *)
(* np.exp(-t) for an integer t >= 0 is modelled as (1/2)^t: like exp(-t)   *)
(* it is 1 at t = 0, positive, strictly decreasing and multiplicative,     *)
(* with the base 1/e replaced by the rational 1/2.                         *)
(*                                                                         *)
(* Indices.  Python indices 0..m-1 are the model's 1..m.                   *)
(***************************************************************************)
EXTENDS Integers, Sequences, FiniteSets, TLC

VARIABLES svm, pc, frame, ret, hist

vars == <<svm, pc, frame, ret, hist>>

(***************************************************************************)
(* Bound of the model: the largest max_iter an object is constructed with. *)
(***************************************************************************)
MaxIter == 2

(***************************************************************************)
(* Float arithmetic as exact rationals.                                    *)
(***************************************************************************)
Abs(x) == IF x < 0 THEN -x ELSE x

RECURSIVE GCD(_, _)
GCD(a, b) == IF b = 0 THEN a ELSE GCD(b, a % b)

Norm(n, d) ==
    LET g == GCD(Abs(n), Abs(d))
        s == IF d < 0 THEN -1 ELSE 1
    IN  <<(s * n) \div g, (s * d) \div g>>

R(n) == <<n, 1>>
RAdd(a, b) ==
    LET g == GCD(a[2], b[2])
    IN  Norm(a[1] * (b[2] \div g) + b[1] * (a[2] \div g), (a[2] \div g) * b[2])
RNeg(a) == <<-a[1], a[2]>>
RSub(a, b) == RAdd(a, RNeg(b))
RMul(a, b) ==
    LET g1 == GCD(Abs(a[1]), b[2])
        g2 == GCD(Abs(b[1]), a[2])
    IN  Norm((a[1] \div g1) * (b[1] \div g2), (a[2] \div g2) * (b[2] \div g1))
RDiv(a, b) == RMul(a, Norm(b[2], b[1]))
RLt(a, b) == RSub(a, b)[1] < 0
RLe(a, b) == RSub(a, b)[1] <= 0
RAbs(a) == <<Abs(a[1]), a[2]>>
RMax(a, b) == IF RLt(a, b) THEN b ELSE a
RMin(a, b) == IF RLt(b, a) THEN b ELSE a

RECURSIVE RPow(_, _)
RPow(a, k) == IF k = 0 THEN R(1) ELSE RMul(a, RPow(a, k - 1))

\* np.exp(-t), t a non-negative integer
ExpNeg(t) == RPow(<<1, 2>>, t)

\* the literal 1e-6
Eps == <<1, 1000000>>

(***************************************************************************)
(* Vector helpers (numpy).                                                 *)
(***************************************************************************)
RECURSIVE IntDotFrom(_, _, _)
IntDotFrom(x1, x2, k) ==
    IF k > Len(x1) THEN 0 ELSE x1[k] * x2[k] + IntDotFrom(x1, x2, k + 1)
\* np.dot on two feature vectors
Dot(x1, x2) == IntDotFrom(x1, x2, 1)

RECURSIVE SqDistFrom(_, _, _)
SqDistFrom(x1, x2, k) ==
    IF k > Len(x1) THEN 0
    ELSE (x1[k] - x2[k]) * (x1[k] - x2[k]) + SqDistFrom(x1, x2, k + 1)
\* np.sum((x1 - x2) ** 2)
SqDist(x1, x2) == SqDistFrom(x1, x2, 1)

RECURSIVE RSumFrom(_, _)
RSumFrom(v, k) == IF k > Len(v) THEN R(0) ELSE RAdd(v[k], RSumFrom(v, k + 1))
\* sum of a vector of floats
RSum(v) == RSumFrom(v, 1)

(***************************************************************************)
(* kernel(self, x1, x2)                                                    *)
(***************************************************************************)
\* kernel with the second argument of the polynomial variant mistyped
kernel_typo(self, x1, x2) ==
    IF self._kernel = "linear" THEN R(Dot(x1, x2))
    ELSE IF self._kernel = "poly" THEN R((Dot(x1, x1) + 1) * (Dot(x1, x1) + 1))
    ELSE IF self._kernel = "rbf" THEN ExpNeg(SqDist(x1, x2))
    ELSE R(0)

kernel(self, x1, x2) ==
    IF self._kernel = "linear" THEN R(Dot(x1, x2))
    ELSE IF self._kernel = "poly" THEN R((Dot(x1, x2) + 1) * (Dot(x1, x2) + 1))
    ELSE IF self._kernel = "rbf" THEN ExpNeg(SqDist(x1, x2))
    ELSE R(0)

(***************************************************************************)
(* computer_product_matrix(self): the upper triangle is computed, the      *)
(* lower triangle is copied from it.                                       *)
(***************************************************************************)
\* computer_product_matrix without the copy into the lower triangle
computer_product_matrix_upper(self) ==
    [i \in 1..self.m |->
        [j \in 1..self.m |->
            IF i <= j THEN kernel(self, self.X[i], self.X[j]) ELSE R(0)]]

computer_product_matrix(self) ==
    [i \in 1..self.m |->
        [j \in 1..self.m |->
            IF i <= j THEN kernel(self, self.X[i], self.X[j])
                      ELSE kernel(self, self.X[j], self.X[i])]]

(***************************************************************************)
(* function_g(self, i): b + np.dot(alpha * Y, product_matrix[i])           *)
(***************************************************************************)
\* function_g without the bias
function_g_unbiased(self, i) ==
    RSum([j \in 1..self.m |->
            RMul(RMul(self.alpha[j], self.Y[j]), self.product_matrix[i][j])])

function_g(self, i) ==
    RAdd(self.b,
         RSum([j \in 1..self.m |->
                 RMul(RMul(self.alpha[j], self.Y[j]), self.product_matrix[i][j])]))

(***************************************************************************)
(* create_E(self): E = np.dot(alpha * Y, product_matrix) + b - Y           *)
(***************************************************************************)
\* create_E that leaves the cache as it is
create_E_stale(self) == self.E

create_E(self) ==
    [i \in 1..self.m |->
        RSub(RAdd(RSum([j \in 1..self.m |->
                          RMul(RMul(self.alpha[j], self.Y[j]),
                               self.product_matrix[j][i])]),
                  self.b),
             self.Y[i])]

(***************************************************************************)
(* init_args(self, features, labels)                                       *)
(***************************************************************************)
\* the assignment self.<field> = v
Assign(self, field, v) ==
    [f \in (DOMAIN self) \cup {field} |-> IF f = field THEN v ELSE self[f]]

\* init_args that keeps the multipliers and bias of an earlier fit of the
\* same size
init_args_warm(self, features, labels) ==
    LET keep == "alpha" \in DOMAIN self /\ self.m = Len(features)
        s1 == Assign(Assign(self, "m", Len(features)), "n", Len(features[1]))
        s2 == Assign(s1, "X", features)
        s3 == Assign(s2, "Y", [i \in 1..Len(labels) |-> R(labels[i])])
        s4 == Assign(s3, "alpha", IF keep THEN self.alpha ELSE [i \in 1..s3.m |-> R(0)])
        s5 == Assign(s4, "b", IF keep THEN self.b ELSE R(0))
        s6 == Assign(s5, "product_matrix", computer_product_matrix(s5))
    IN  Assign(s6, "E", [i \in 1..s6.m |-> RSub(s6.b, s6.Y[i])])

init_args(self, features, labels) ==
    LET s1 == Assign(Assign(self, "m", Len(features)), "n", Len(features[1]))
        s2 == Assign(s1, "X", features)
        s3 == Assign(s2, "Y", [i \in 1..Len(labels) |-> R(labels[i])])
        s4 == Assign(s3, "alpha", [i \in 1..s3.m |-> R(0)])
        s5 == Assign(s4, "b", R(0))
        s6 == Assign(s5, "product_matrix", computer_product_matrix(s5))
    IN  Assign(s6, "E", [i \in 1..s6.m |-> RSub(s6.b, s6.Y[i])])

(***************************************************************************)
(* clip_alpha(_alpha, L, H)                                                *)
(***************************************************************************)
\* clip_alpha without the lower bound
clip_alpha_upper(_alpha, L, H) == IF RLt(H, _alpha) THEN H ELSE _alpha

\* clip_alpha without the upper bound
clip_alpha_lower(_alpha, L, H) == IF RLt(_alpha, L) THEN L ELSE _alpha

clip_alpha(_alpha, L, H) ==
    IF RLt(H, _alpha) THEN H
    ELSE IF RLt(_alpha, L) THEN L
    ELSE _alpha

(***************************************************************************)
(* update_alpha_pair(self, i1, i2).  The locals of the method are the      *)
(* operators below, in the order in which the method computes them; each   *)
(* takes the values computed before it.  The result is a record of the     *)
(* returned boolean and the object after the call.                         *)
(***************************************************************************)
\* "L = ..." of both branches of "if Y1 == Y2"
bound_L(self, i1, i2) ==
    IF self.Y[i1] = self.Y[i2]
      THEN RMax(R(0), RSub(RAdd(self.alpha[i1], self.alpha[i2]), self.C))
      ELSE RMax(R(0), RSub(self.alpha[i2], self.alpha[i1]))

\* "H = ..." of both branches of "if Y1 == Y2"
bound_H(self, i1, i2) ==
    IF self.Y[i1] = self.Y[i2]
      THEN RMin(self.C, RAdd(self.alpha[i1], self.alpha[i2]))
      ELSE RMin(self.C, RSub(RAdd(self.C, self.alpha[i2]), self.alpha[i1]))

\* eta = K11 + K22 - 2 * K12
eta(self, i1, i2) ==
    RSub(RAdd(self.product_matrix[i1][i1], self.product_matrix[i2][i2]),
         RMul(R(2), self.product_matrix[i1][i2]))

\* alpha2_new_unc with the error difference reversed
alpha2_new_unc_reversed(self, i1, i2) ==
    RAdd(self.alpha[i2],
         RDiv(RMul(self.Y[i2], RSub(self.E[i2], self.E[i1])), eta(self, i1, i2)))

\* alpha2_new_unc = alpha2_old + Y2 * (E1 - E2) / eta, E1 and E2 from the cache
alpha2_new_unc(self, i1, i2) ==
    RAdd(self.alpha[i2],
         RDiv(RMul(self.Y[i2], RSub(self.E[i1], self.E[i2])), eta(self, i1, i2)))

\* alpha1_new without the factor Y1 * Y2
alpha1_new_unsigned(self, i1, i2, alpha2_new) ==
    RAdd(self.alpha[i1], RSub(self.alpha[i2], alpha2_new))

\* alpha1_new = alpha1_old + Y1 * Y2 * (alpha2_old - alpha2_new)
alpha1_new(self, i1, i2, alpha2_new) ==
    RAdd(self.alpha[i1],
         RMul(RMul(self.Y[i1], self.Y[i2]), RSub(self.alpha[i2], alpha2_new)))

b1_new(self, i1, i2, a1_new, a2_new) ==
    RSub(RSub(RSub(self.b, self.E[i1]),
              RMul(RMul(self.Y[i1], self.product_matrix[i1][i1]),
                   RSub(a1_new, self.alpha[i1]))),
         RMul(RMul(self.Y[i2], self.product_matrix[i2][i1]),
              RSub(a2_new, self.alpha[i2])))

b2_new(self, i1, i2, a1_new, a2_new) ==
    RSub(RSub(RSub(self.b, self.E[i2]),
              RMul(RMul(self.Y[i1], self.product_matrix[i1][i2]),
                   RSub(a1_new, self.alpha[i1]))),
         RMul(RMul(self.Y[i2], self.product_matrix[i2][i2]),
              RSub(a2_new, self.alpha[i2])))

\* the choice of the new bias with b1 and b2 exchanged
choose_b_exchanged(self, a1_new, a2_new, b1, b2) ==
    IF RLt(R(0), a1_new) /\ RLt(a1_new, self.C) THEN b2
    ELSE IF RLt(R(0), a2_new) /\ RLt(a2_new, self.C) THEN b1
    ELSE RDiv(RAdd(b1, b2), R(2))

\* the three-way choice of the new bias
choose_b(self, a1_new, a2_new, b1, b2) ==
    IF RLt(R(0), a1_new) /\ RLt(a1_new, self.C) THEN b1
    ELSE IF RLt(R(0), a2_new) /\ RLt(a2_new, self.C) THEN b2
    ELSE RDiv(RAdd(b1, b2), R(2))

\* self.create_E() and "return True"
recompute_E(self) == [ok |-> TRUE, self |-> [self EXCEPT !.E = create_E(self)]]

\* self.b = ...; self.alpha[i1] = alpha1_new; self.alpha[i2] = alpha2_new
commit_pair(self, i1, i2, a1_new, a2_new, b_new) ==
    recompute_E([self EXCEPT !.b = b_new,
                             !.alpha = [self.alpha EXCEPT ![i1] = a1_new,
                                                          ![i2] = a2_new]])

update_with_alphas(self, i1, i2, a1_new, a2_new) ==
    commit_pair(self, i1, i2, a1_new, a2_new,
                choose_b(self, a1_new, a2_new,
                         b1_new(self, i1, i2, a1_new, a2_new),
                         b2_new(self, i1, i2, a1_new, a2_new)))

update_with_alpha2(self, i1, i2, a2_new) ==
    update_with_alphas(self, i1, i2, alpha1_new(self, i1, i2, a2_new), a2_new)

\* update_alpha_pair whose eta <= 0 exit has already moved b
update_alpha_pair_dirty(self, i1, i2) ==
    IF i1 = i2 THEN [ok |-> FALSE, self |-> self]
    ELSE IF RLe(eta(self, i1, i2), R(0))
      THEN [ok |-> FALSE, self |-> [self EXCEPT !.b = RAdd(@, R(1))]]
    ELSE update_with_alpha2(self, i1, i2,
                            clip_alpha(alpha2_new_unc(self, i1, i2),
                                       bound_L(self, i1, i2), bound_H(self, i1, i2)))

update_alpha_pair(self, i1, i2) ==
    IF i1 = i2 THEN [ok |-> FALSE, self |-> self]
    ELSE IF RLe(eta(self, i1, i2), R(0)) THEN [ok |-> FALSE, self |-> self]
    ELSE update_with_alpha2(self, i1, i2,
                            clip_alpha(alpha2_new_unc(self, i1, i2),
                                       bound_L(self, i1, i2), bound_H(self, i1, i2)))

(***************************************************************************)
(* examine_example(self, i1).  all_indices is the list produced by         *)
(* np.random.shuffle.  The result is a record of the returned boolean, the *)
(* object after the call and the list of update_alpha_pair calls made, as  *)
(* pairs <<i2, result>>.                                                   *)
(***************************************************************************)
\* E1 = self.function_g(i1) - self.Y[i1]
fresh_E1(self, i1) == RSub(function_g(self, i1), self.Y[i1])

\* the condition of the if statement, on alpha[i1] and radius
kkt_condition(self, a, radius) ==
    \/ RLt(a, Eps) /\ RLt(radius, R(0))
    \/ RLt(RSub(self.C, Eps), a) /\ RLt(R(0), radius)
    \/ RLe(RAdd(R(0), Eps), a) /\ RLe(a, RSub(self.C, Eps))
         /\ RLt(Eps, RAbs(radius))

\* radius = E1 * self.Y[i1] and the KKT check
violates_KKT(self, i1) ==
    kkt_condition(self, self.alpha[i1], RMul(fresh_E1(self, i1), self.Y[i1]))

non_zero_alpha_indices(self) ==
    {k \in 1..self.m : RLt(Eps, self.alpha[k]) /\ RLt(self.alpha[k], RSub(self.C, Eps))}

\* the first candidate of minimal |E[j] - E1|
argmin_candidate(self, j_candidates, E1) ==
    CHOOSE j \in j_candidates :
        \A k \in j_candidates :
            /\ RLe(RAbs(RSub(self.E[j], E1)), RAbs(RSub(self.E[k], E1)))
            /\ (RAbs(RSub(self.E[k], E1)) = RAbs(RSub(self.E[j], E1)) => j <= k)

\* j_candidates[np.argmax(np.abs(self.E[j_candidates] - E1))]: the first
\* candidate, in increasing index order, of maximal |E[j] - E1|
argmax_candidate(self, j_candidates, E1) ==
    CHOOSE j \in j_candidates :
        \A k \in j_candidates :
            /\ RLe(RAbs(RSub(self.E[k], E1)), RAbs(RSub(self.E[j], E1)))
            /\ (RAbs(RSub(self.E[k], E1)) = RAbs(RSub(self.E[j], E1)) => j <= k)

RECURSIVE scan_all(_, _, _, _, _)
\* a scan that gives up at the first failed attempt
scan_step_giveup(self, i1, all_indices, k, attempts, j2, r) ==
    [ret |-> r.ok, self |-> r.self, attempts |-> Append(attempts, <<j2, r.ok>>)]

\* a scan in which a failed attempt has moved b
scan_step_dirty(self, i1, all_indices, k, attempts, j2, r) ==
    IF r.ok
      THEN [ret |-> TRUE, self |-> r.self, attempts |-> Append(attempts, <<j2, TRUE>>)]
      ELSE scan_all([r.self EXCEPT !.b = RAdd(@, R(1))], i1, all_indices, k + 1,
                    Append(attempts, <<j2, FALSE>>))

\* the outcome of "if self.update_alpha_pair(i1, j2): return True" in the scan
scan_step(self, i1, all_indices, k, attempts, j2, r) ==
    IF r.ok
      THEN [ret |-> TRUE, self |-> r.self, attempts |-> Append(attempts, <<j2, TRUE>>)]
      ELSE scan_all(r.self, i1, all_indices, k + 1, Append(attempts, <<j2, FALSE>>))

\* "for j2 in all_indices", from position k on
scan_all(self, i1, all_indices, k, attempts) ==
    IF k > Len(all_indices)
      THEN [ret |-> FALSE, self |-> self, attempts |-> attempts]
    ELSE IF all_indices[k] = i1
      THEN scan_all(self, i1, all_indices, k + 1, attempts)
    ELSE scan_step(self, i1, all_indices, k, attempts, all_indices[k],
                   update_alpha_pair(self, i1, all_indices[k]))

\* the outcome of the first-tier "if self.update_alpha_pair(i1, j2)"
first_tier_step(self, i1, all_indices, j2, r) ==
    IF r.ok
      THEN [ret |-> TRUE, self |-> r.self, attempts |-> <<<<j2, TRUE>>>>]
      ELSE scan_all(r.self, i1, all_indices, 1, <<<<j2, FALSE>>>>)

first_tier_try(self, i1, all_indices, j2) ==
    first_tier_step(self, i1, all_indices, j2, update_alpha_pair(self, i1, j2))

select_and_update(self, i1, all_indices, j_candidates) ==
    IF j_candidates # {}
      THEN first_tier_try(self, i1, all_indices,
                          argmax_candidate(self, j_candidates, fresh_E1(self, i1)))
      ELSE scan_all(self, i1, all_indices, 1, <<>>)

\* examine_example without the KKT check
examine_example_unchecked(self, i1, all_indices) ==
    select_and_update(self, i1, all_indices, non_zero_alpha_indices(self) \ {i1})

examine_example(self, i1, all_indices) ==
    IF violates_KKT(self, i1)
      THEN select_and_update(self, i1, all_indices, non_zero_alpha_indices(self) \ {i1})
      ELSE [ret |-> FALSE, self |-> self, attempts |-> <<>>]

\* whether the call reaches np.random.shuffle: the index violates KKT and
\* the first tier made no successful update
first_tier_fails(self, i1, j_candidates) ==
    j_candidates # {} =>
      ~update_alpha_pair(self, i1,
                         argmax_candidate(self, j_candidates, fresh_E1(self, i1))).ok

shuffle_drawn(self, i1) ==
    /\ violates_KKT(self, i1)
    /\ first_tier_fails(self, i1, non_zero_alpha_indices(self) \ {i1})

(***************************************************************************)
(* predict(self, data)                                                     *)
(***************************************************************************)
RECURSIVE predict_loop(_, _, _, _)
predict_loop(self, data, i, r) ==
    IF i > self.m THEN r
    ELSE predict_loop(self, data, i + 1,
             RAdd(r, RMul(RMul(self.alpha[i], self.Y[i]),
                          kernel(self, data, self.X[i]))))

\* predict that maps a decision value of zero to +1
predict_ge(self, data) ==
    IF RLe(R(0), predict_loop(self, data, 1, self.b)) THEN 1 ELSE -1

predict(self, data) ==
    IF RLt(R(0), predict_loop(self, data, 1, self.b)) THEN 1 ELSE -1

(***************************************************************************)
(* score(self, X_test, y_test)                                             *)
(***************************************************************************)
RECURSIVE right_count(_, _, _, _)
right_count(self, X_test, y_test, i) ==
    IF i > Len(X_test) THEN 0
    ELSE (IF predict(self, X_test[i]) = y_test[i] THEN 1 ELSE 0)
         + right_count(self, X_test, y_test, i + 1)

\* score that divides by the size of the training set
score_by_m(self, X_test, y_test) ==
    RDiv(R(right_count(self, X_test, y_test, 1)), R(self.m))

score(self, X_test, y_test) ==
    RDiv(R(right_count(self, X_test, y_test, 1)), R(Len(X_test)))

(***************************************************************************)
(* decision_function(self, X_eval): X_eval is one feature vector           *)
(* (ndim == 1, a sequence of integers) or a list of feature vectors; the   *)
(* result is the array of decision values.                                 *)
(***************************************************************************)
RECURSIVE decision_value(_, _, _, _)
decision_value(self, x, i, r) ==
    IF i > self.m THEN r
    ELSE decision_value(self, x, i + 1,
             RAdd(r, RMul(RMul(self.alpha[i], self.Y[i]),
                          kernel(self, x, self.X[i]))))

decision_function(self, X_eval, ndim) ==
    IF ndim = 1 THEN <<decision_value(self, X_eval, 1, self.b)>>
    ELSE [k \in 1..Len(X_eval) |-> decision_value(self, X_eval[k], 1, self.b)]

(***************************************************************************)
(* support_vector_indices_ and support_vectors_: np.where(mask)[0] and     *)
(* X[mask] with mask = (alpha > 1e-6), in increasing index order.          *)
(***************************************************************************)
RECURSIVE where_from(_, _)
where_from(mask, k) ==
    IF k > Len(mask) THEN <<>>
    ELSE (IF mask[k] THEN <<k>> ELSE <<>>) \o where_from(mask, k + 1)

\* the mask alpha > 0, without the tolerance
alpha_mask_positive(self) == [k \in 1..self.m |-> RLt(R(0), self.alpha[k])]

alpha_mask(self) == [k \in 1..self.m |-> RLt(Eps, self.alpha[k])]

support_vector_indices_(self) == where_from(alpha_mask(self), 1)

support_vectors_(self) ==
    LET idx == where_from(alpha_mask(self), 1)
    IN  [k \in 1..Len(idx) |-> self.X[idx[k]]]

(***************************************************************************)
(* fit(self, features, labels, X_test, y_test): loop control and the       *)
(* per-pass accuracy record.  None is [some |-> FALSE].                    *)
(***************************************************************************)
None == [some |-> FALSE, val |-> <<>>]
Some(v) == [some |-> TRUE, val |-> v]

\* "for i in range(self.m)": another index follows index i
more_indices(self, i) == i < self.m

\* a pass loop that stops one pass short
more_passes_short(self, passes) == passes + 1 < self.max_iter - 1

\* "for passes in range(self.max_iter)": another pass follows pass `passes`
more_passes(self, passes) == passes + 1 < self.max_iter

\* an accuracy record that keeps only the latest value
record_accuracy_latest(self, X_test, y_test, test_accuracies) ==
    IF X_test.some /\ y_test.some
      THEN <<score(self, X_test.val, y_test.val)>>
      ELSE test_accuracies

\* "if X_test is not None and y_test is not None: ... append(...)"
record_accuracy(self, X_test, y_test, test_accuracies) ==
    IF X_test.some /\ y_test.some
      THEN Append(test_accuracies, score(self, X_test.val, y_test.val))
      ELSE test_accuracies

(***************************************************************************)
(* Inputs.                                                                 *)
(***************************************************************************)
\* training sets: features (an m x 2 array) and labels
TrainSets ==
    {[features |-> <<<<0, 0>>, <<1, 1>>>>,                 labels |-> <<-1, 1>>],
     [features |-> <<<<1, 0>>, <<1, 0>>>>,                 labels |-> <<1, -1>>],
     [features |-> <<<<0, 1>>, <<1, 0>>>>,                 labels |-> <<1, -1>>],
     [features |-> <<<<0, 0>>, <<1, 1>>, <<0, 0>>>>,       labels |-> <<-1, 1, 1>>],
     [features |-> <<<<0, 1>>, <<1, 0>>, <<1, 1>>>>,       labels |-> <<1, 1, 1>>],
     [features |-> <<<<1, 0>>, <<0, 0>>, <<0, 1>>>>,       labels |-> <<1, -1, 1>>],
     [features |-> <<<<0, 0>>, <<1, 0>>, <<2, 0>>>>,       labels |-> <<-1, -1, 1>>],
     [features |-> <<<<0, 0>>, <<0, 0>>, <<0, 0>>, <<1, 0>>>>,
                                                           labels |-> <<-1, 1, -1, 1>>]}

\* the optional arguments X_test, y_test of fit
EvalX == <<<<0, 0>>, <<1, 1>>>>
EvalArgs ==
    {[X_test |-> None,        y_test |-> None],
     [X_test |-> Some(EvalX), y_test |-> None],
     [X_test |-> Some(EvalX), y_test |-> Some(<<-1, 1>>)]}

\* the arguments of direct calls of score
ScoreArgs ==
    {[X_test |-> EvalX, y_test |-> <<-1, 1>>],
     [X_test |-> <<<<0, 0>>, <<1, 0>>, <<0, 1>>, <<1, 1>>>>, y_test |-> <<1, 1, 1, 1>>]}

\* query vectors of predict and decision_function
Queries == {<<0, 0>>, <<1, 0>>}

\* feature vectors on which the kernel is compared
KernelPoints == {<<u, v>> : u \in -1..1, v \in 0..1}

Kernels == {"linear", "poly", "rbf", "sigmoid"}

\* the constructor arguments C and kernel: every kernel name with C = 1, and
\* the linear kernel with a C below the support-vector threshold 1e-6
Configs ==
    {[C |-> R(1), kernel |-> k] : k \in Kernels}
      \cup {[C |-> <<1, 2000000>>, kernel |-> "linear"]}

\* the possible results of np.random.shuffle(list(range(m)))
shuffles(m) ==
    {f \in [1..m -> 1..m] : \A x \in 1..m : \E k \in 1..m : f[k] = x}

(***************************************************************************)
(* State.                                                                  *)
(*   svm    the object: C, max_iter, _kernel after __init__; m, n, X, Y,   *)
(*          alpha, b, product_matrix, E once init_args has run             *)
(*   pc     position: "idle" (constructed), "examine" (inside the pass     *)
(*          loop of fit, about to call examine_example(frame.i)),          *)
(*          "endpass" (after the inner loop of a pass), "done" (fit has    *)
(*          returned)                                                      *)
(*   frame  the locals of fit: X_test, y_test, test_accuracies, passes, i  *)
(*   ret    the last completed public call: its name, argument and value   *)
(*   hist   history: whether fit was called before; whether fit has just   *)
(*          been                                                           *)
(*          entered on an object with non-zero multipliers (until the      *)
(*          first examine_example); the arguments of the current call; the *)
(*          calls of examine_example it made; the last of them with its    *)
(*          result, its update_alpha_pair attempts and the alpha, b and E  *)
(*          it started from; the number of successful updates of the       *)
(*          current pass; alpha, b, E and that number at the end of each   *)
(*          pass                                                           *)
(***************************************************************************)
NoFrame == [X_test |-> None, y_test |-> None, test_accuracies |-> <<>>,
            passes |-> 0, i |-> 0]
NoLast == [i1 |-> 0, ret |-> FALSE, attempts |-> <<>>,
           before |-> [alpha |-> <<>>, b |-> R(0), E |-> <<>>]]
NoHist == [refit |-> FALSE, warm |-> FALSE, features |-> <<>>, labels |-> <<>>,
           calls |-> <<>>, last |-> NoLast, updates |-> 0, passEnd |-> <<>>]
NoRet == [op |-> "none", arg |-> <<>>, val |-> <<>>]

\* __init__(self, C, max_iter, kernel)
Init ==
    /\ \E c \in Configs, max_iter \in 1..MaxIter :
          svm = [C |-> c.C, max_iter |-> max_iter, _kernel |-> c.kernel]
    /\ pc = "idle"
    /\ frame = NoFrame
    /\ ret = NoRet
    /\ hist = NoHist

\* fit(features, labels, X_test, y_test) on a new object or on a trained
\* one: init_args and entry of the loop.  The calls made between two fits
\* (Predict .. SupportVectors below) leave svm, frame and hist unchanged, so
\* a repeated fit is taken from the state in which the previous fit returned.
\* fit can be repeated any number of times: what a call starts from beyond
\* its arguments is the object the previous call left, and hist keeps of the
\* earlier calls only that there was one.
Fit ==
    /\ pc = "idle" \/ (pc = "done" /\ ret.op = "fit")
    /\ \E d \in TrainSets :
          /\ svm' = init_args(svm, d.features, d.labels)
          /\ \E e \in EvalArgs :
                frame' = [X_test |-> e.X_test, y_test |-> e.y_test,
                          test_accuracies |-> <<>>, passes |-> 0, i |-> 1]
          /\ hist' = [refit |-> (pc = "done"),
                      warm |-> (pc = "done" /\ \E i \in 1..svm.m : svm.alpha[i] # R(0)),
                      features |-> d.features, labels |-> d.labels,
                      calls |-> <<>>, last |-> NoLast, updates |-> 0,
                      passEnd |-> <<>>]
    /\ pc' = "examine"
    /\ ret' = NoRet

\* the effect on the object of a call of examine_example with outcome r
ExamineCommit(r) ==
    /\ svm' = r.self
    /\ hist' = [hist EXCEPT !.calls = Append(@, <<frame.passes, frame.i>>),
                            !.last = [i1 |-> frame.i, ret |-> r.ret,
                                      attempts |-> r.attempts,
                                      before |-> [alpha |-> svm.alpha,
                                                  b |-> svm.b, E |-> svm.E]],
                            !.updates = IF r.ret THEN @ + 1 ELSE @,
                            !.warm = FALSE]

\* one iteration of "for i in range(self.m): self.examine_example(i)".
\* The scan skips i1 wherever the shuffle put it, so only the shuffles that
\* put i1 first are enumerated: the others repeat their outcomes.
ExamineExample ==
    /\ pc = "examine"
    /\ \E all_indices \in (IF shuffle_drawn(svm, frame.i)
                                THEN {f \in shuffles(svm.m) : f[1] = frame.i}
                                ELSE {<<>>}) :
          ExamineCommit(examine_example(svm, frame.i, all_indices))
    /\ IF more_indices(svm, frame.i)
         THEN /\ frame' = [frame EXCEPT !.i = @ + 1]
              /\ pc' = "examine"
         ELSE /\ frame' = frame
              /\ pc' = "endpass"
    /\ UNCHANGED ret

\* the end of a pass: the optional score, then the next pass or the return
EndPass ==
    /\ pc = "endpass"
    /\ LET acc == record_accuracy(svm, frame.X_test, frame.y_test,
                                  frame.test_accuracies)
       IN  /\ hist' = [hist EXCEPT !.passEnd = Append(@, [alpha |-> svm.alpha,
                                                          b |-> svm.b,
                                                          E |-> svm.E,
                                                          updates |-> hist.updates]),
                                   !.updates = 0]
           /\ IF more_passes(svm, frame.passes)
                THEN /\ frame' = [frame EXCEPT !.test_accuracies = acc,
                                               !.passes = @ + 1, !.i = 1]
                     /\ pc' = "examine"
                     /\ UNCHANGED ret
                ELSE /\ frame' = [frame EXCEPT !.test_accuracies = acc]
                     /\ pc' = "done"
                     /\ ret' = [op |-> "fit", arg |-> <<>>, val |-> acc]
    /\ UNCHANGED svm

\* predict(data) on the trained model.  The calls Predict .. SupportVectors
\* change nothing but ret and do not read it, so each is taken from the state
\* in which fit returned: after another of these calls it would return the
\* same value.
Predict ==
    /\ pc = "done" /\ ret.op = "fit"
    /\ \E x \in Queries : ret' = [op |-> "predict", arg |-> x, val |-> predict(svm, x)]
    /\ UNCHANGED <<svm, pc, frame, hist>>

\* decision_function(X_eval) on the trained model, for one vector
DecisionFunction ==
    /\ pc = "done" /\ ret.op = "fit"
    /\ \E x \in Queries :
          ret' = [op |-> "decision_function", arg |-> x,
                  val |-> decision_function(svm, x, 1)]
    /\ UNCHANGED <<svm, pc, frame, hist>>

\* score(X_test, y_test) on the trained model
Score ==
    /\ pc = "done" /\ ret.op = "fit"
    /\ \E a \in ScoreArgs :
          ret' = [op |-> "score", arg |-> a, val |-> score(svm, a.X_test, a.y_test)]
    /\ UNCHANGED <<svm, pc, frame, hist>>

\* the property support_vector_indices_
SupportVectorIndices ==
    /\ pc = "done" /\ ret.op = "fit"
    /\ ret' = [op |-> "support_vector_indices_", arg |-> <<>>,
               val |-> support_vector_indices_(svm)]
    /\ UNCHANGED <<svm, pc, frame, hist>>

\* the property support_vectors_
SupportVectors ==
    /\ pc = "done" /\ ret.op = "fit"
    /\ ret' = [op |-> "support_vectors_", arg |-> <<>>, val |-> support_vectors_(svm)]
    /\ UNCHANGED <<svm, pc, frame, hist>>

Next ==
    \/ Fit
    \/ ExamineExample
    \/ EndPass
    \/ Predict
    \/ DecisionFunction
    \/ Score
    \/ SupportVectorIndices
    \/ SupportVectors

Spec == Init /\ [][Next]_vars

(***************************************************************************)
(* Properties.                                                             *)
(***************************************************************************)
fitted == pc # "idle"

\* a state of fit itself: inside the training loop or at its return; the
\* calls made after fit returned leave the object as fit left it
InFit == pc \in {"examine", "endpass"} \/ (pc = "done" /\ ret.op = "fit")

\* the model as it was at the end of pass p (1-based) of the current fit
AtPassEnd(p) ==
    [svm EXCEPT !.alpha = hist.passEnd[p].alpha, !.b = hist.passEnd[p].b]

\* number of positions of X_test whose prediction equals the label, over
\* the number of positions
Accuracy(self, X_test, y_test) ==
    Norm(Cardinality({k \in 1..Len(X_test) : predict(self, X_test[k]) = y_test[k]}),
         Len(X_test))

\* C1: box constraint.  In every state from the end of init_args on, after
\* any sequence of successful or failed pair updates, 0 <= alpha[i] <= C
\* for every training index i.
C1_BoxConstraint ==
    fitted => \A i \in 1..svm.m :
                 RLe(R(0), svm.alpha[i]) /\ RLe(svm.alpha[i], svm.C)

\* C1 witness: the last examine_example call committed an update, leaving
\* one multiplier at C and another strictly inside (0, C).
C1_Witness ==
    /\ fitted
    /\ hist.last.ret
    /\ \E i \in 1..svm.m : svm.alpha[i] = svm.C
    /\ \E i \in 1..svm.m : RLt(R(0), svm.alpha[i]) /\ RLt(svm.alpha[i], svm.C)

\* C2: error-cache consistency.  Whenever examine_example is about to be
\* entered, E[i] = b + sum_j alpha[j]*y[j]*K[j][i] - y[i] for every i, with
\* the current alpha and b.
C2_ErrorCacheConsistent ==
    pc = "examine" =>
      \A i \in 1..svm.m :
        svm.E[i] = RSub(RAdd(svm.b,
                             RSum([j \in 1..svm.m |->
                                     RMul(svm.alpha[j],
                                          RMul(svm.Y[j], svm.product_matrix[j][i]))])),
                        svm.Y[i])

\* C2 witness: examine_example is about to be entered after a call that
\* made a failed attempt and then a successful update that moved b.
C2_Witness ==
    /\ pc = "examine"
    /\ hist.last.ret
    /\ \E k \in 1..Len(hist.last.attempts) : ~hist.last.attempts[k][2]
    /\ svm.b # R(0)
    /\ \E i \in 1..svm.m : svm.alpha[i] # R(0)

\* the calls of examine_example of a complete fit: passes 0..n-1, each over
\* the indices 1..m in increasing order
ExpectedCalls(m, n) ==
    [k \in 1..(n * m) |-> <<(k - 1) \div m, ((k - 1) % m) + 1>>]

C4_AccuracyTrace ==
    pc = "done" =>
      /\ ret.op = "fit" => ret.val = frame.test_accuracies
      /\ IF frame.X_test.some /\ frame.y_test.some
           THEN /\ Len(frame.test_accuracies) = svm.max_iter
                /\ \A p \in 1..svm.max_iter :
                      frame.test_accuracies[p] =
                        Accuracy(AtPassEnd(p), frame.X_test.val, frame.y_test.val)
           ELSE frame.test_accuracies = <<>>

\* C4 witness: fit returned a trace of two entries that differ.
C4_Witness ==
    /\ pc = "done"
    /\ ret.op = "fit"
    /\ frame.X_test.some /\ frame.y_test.some
    /\ Len(ret.val) = 2
    /\ ret.val[1] # ret.val[2]

\* C5: for every query vector and every model state, predict is +1 exactly
\* when the decision value is strictly positive and -1 otherwise; a call of
\* predict returns that value.
C5_PredictSign ==
    fitted =>
      /\ InFit => \A x \in Queries :
            LET v == decision_function(svm, x, 1)[1]
                p == predict(svm, x)
            IN  /\ p \in {-1, 1}
                /\ p = 1 <=> v[1] > 0
                /\ p = -1 <=> v[1] <= 0
      /\ ret.op = "predict" =>
            ret.val = IF decision_function(svm, ret.arg, 1)[1][1] > 0 THEN 1 ELSE -1

\* C5 witness: predict returned -1 for a query whose decision value is
\* exactly 0, on a model with a non-zero multiplier.
C5_Witness ==
    /\ ret.op = "predict"
    /\ ret.val = -1
    /\ decision_function(svm, ret.arg, 1)[1] = R(0)
    /\ \E i \in 1..svm.m : svm.alpha[i] # R(0)

\* C6: score is the number of positions where predict equals the label
\* divided by the number of positions, and lies in [0, 1], for every
\* non-empty evaluation set; a call of score returns that value.
C6_ScoreFraction ==
    fitted =>
      /\ InFit => \A a \in ScoreArgs :
            LET v == score(svm, a.X_test, a.y_test)
            IN  /\ v = Accuracy(svm, a.X_test, a.y_test)
                /\ RLe(R(0), v) /\ RLe(v, R(1))
      /\ ret.op = "score" =>
            ret.val = Accuracy(svm, ret.arg.X_test, ret.arg.y_test)

\* C6 witness: score returned 3/4 on four positions labelled +1.
C6_Witness ==
    /\ ret.op = "score"
    /\ Len(ret.arg.X_test) = 4
    /\ ret.val = <<3, 4>>

\* the elements of a set of indices in increasing order
Increasing(S) ==
    CHOOSE f \in [1..Cardinality(S) -> S] :
        \A k \in 1..(Cardinality(S) - 1) : f[k] < f[k + 1]

SupportSet == {i \in 1..svm.m : svm.alpha[i][1] * 1000000 > svm.alpha[i][2]}

C7_Views ==
    fitted =>
      /\ support_vector_indices_(svm) = Increasing(SupportSet)
      /\ support_vectors_(svm) =
           [k \in 1..Cardinality(SupportSet) |-> svm.X[Increasing(SupportSet)[k]]]
      /\ ret.op = "support_vector_indices_" => ret.val = Increasing(SupportSet)
      /\ ret.op = "support_vectors_" =>
           ret.val = [k \in 1..Cardinality(SupportSet) |->
                        svm.X[Increasing(SupportSet)[k]]]

\* C7: in every model state support_vector_indices_ is the increasing list
\* of the indices i with alpha[i] > 1e-6 and support_vectors_ is the list
\* of the training vectors at those indices; reading either property
\* changes no model state.
C7_SupportVectorViews ==
    /\ []C7_Views
    /\ [][(/\ pc = "done" /\ pc' = "done"
            /\ ret'.op \in {"support_vector_indices_", "support_vectors_"})
           => (svm' = svm)]_vars

\* C7 witness: support_vector_indices_ returned a non-empty proper subset of
\* the indices.
C7_Witness ==
    /\ ret.op = "support_vector_indices_"
    /\ ret.val # <<>>
    /\ Len(ret.val) < svm.m

C8_Gram ==
    fitted =>
      \A i, j \in 1..svm.m :
        /\ svm.product_matrix[i][j] = svm.product_matrix[j][i]
        /\ svm.product_matrix[i][j] = kernel(svm, svm.X[i], svm.X[j])

\* C8: from the end of init_args to the end of fit the Gram matrix is
\* symmetric and holds kernel(x_i, x_j); no examine_example step and no
\* end of pass changes it.
C8_GramMatrix ==
    /\ []C8_Gram
    /\ [][(pc \in {"examine", "endpass"})
            => (svm'.product_matrix = svm.product_matrix /\ (svm.X)' = svm.X)]_vars

\* C8 witness: fit returned after a successful update on a training set
\* whose Gram matrix has a non-zero entry off the diagonal.
C8_Witness ==
    /\ pc = "done"
    /\ \E p \in 1..Len(hist.passEnd) : hist.passEnd[p].updates > 0
    /\ \E i, j \in 1..svm.m : i # j /\ svm.product_matrix[i][j] # R(0)

\* C9: kernel(a, b) = kernel(b, a) for all feature vectors a, b, for the
\* kernel variant the object was constructed with (linear, poly, rbf, or an
\* unrecognized name, for which the value is 0).
C9_KernelSymmetric ==
    (pc = "idle" \/ InFit) => \A a, b \in KernelPoints :
        /\ kernel(svm, a, b) = kernel(svm, b, a)
        /\ svm._kernel \notin {"linear", "poly", "rbf"} => kernel(svm, a, b) = R(0)

\* C9 witness: the polynomial kernel was applied to two training vectors x,
\* y with x.x # y.y and gave a value other than 0 and 1.
C9_Witness ==
    /\ fitted
    /\ svm._kernel = "poly"
    /\ \E i, j \in 1..svm.m :
          /\ Dot(svm.X[i], svm.X[i]) # Dot(svm.X[j], svm.X[j])
          /\ svm.product_matrix[i][j] \notin {R(0), R(1)}

\* C10: every call of fit, the first or a repeated one, starts its first
\* pass from alpha = 0, b = 0, E[i] = -y[i] and the Gram matrix, features
\* and labels of that call, whatever an earlier call left.
C10_FitReinitializes ==
    (pc = "examine" /\ frame.passes = 0 /\ frame.i = 1) =>
      /\ svm.m = Len(hist.features)
      /\ svm.X = hist.features
      /\ svm.Y = [i \in 1..svm.m |-> R(hist.labels[i])]
      /\ svm.alpha = [i \in 1..svm.m |-> R(0)]
      /\ svm.b = R(0)
      /\ svm.E = [i \in 1..svm.m |-> R(-hist.labels[i])]
      /\ svm.product_matrix =
           [i \in 1..svm.m |-> [j \in 1..svm.m |->
               kernel(svm, hist.features[i], hist.features[j])]]

\* C10 witness: the first pass of a second fit is about to start on a model
\* whose previous fit left non-zero multipliers.
C10_Witness ==
    /\ pc = "examine" /\ frame.passes = 0 /\ frame.i = 1
    /\ hist.refit
    /\ hist.warm

\* the object as the last call of examine_example found it
Before ==
    [svm EXCEPT !.alpha = hist.last.before.alpha, !.b = hist.last.before.b,
                !.E = hist.last.before.E]

\* a state of fit in which examine_example has been called
Called == InFit /\ hist.last.i1 # 0

\* K[i][i] + K[j][j] - 2 * K[i][j] on the Gram matrix of the current fit
EtaOf(i, j) ==
    RSub(RAdd(svm.product_matrix[i][i], svm.product_matrix[j][j]),
         RMul(R(2), svm.product_matrix[i][j]))

\* C11: update_alpha_pair(i1, i2) returns False and leaves the object, so
\* alpha, b and E, unchanged whenever i1 = i2 or eta <= 0, in every state of
\* fit; in the calls made by examine_example every attempt on a pair with
\* eta <= 0 failed, and a call whose attempts all failed left alpha, b and E
\* as it found them, a failed attempt that is not the last being followed by
\* an attempt with another index.
C11_FailureFrame ==
    InFit =>
      /\ \A i1, i2 \in 1..svm.m :
            (i1 = i2 \/ RLe(EtaOf(i1, i2), R(0))) =>
               update_alpha_pair(svm, i1, i2) = [ok |-> FALSE, self |-> svm]
      /\ Called =>
            LET a == hist.last.attempts
            IN  /\ \A k \in 1..Len(a) :
                      RLe(EtaOf(hist.last.i1, a[k][1]), R(0)) => ~a[k][2]
                /\ \A k \in 1..(Len(a) - 1) : ~a[k][2]
                /\ (\A k \in 1..Len(a) : ~a[k][2]) =>
                      /\ ~hist.last.ret
                      /\ svm.alpha = hist.last.before.alpha
                      /\ svm.b = hist.last.before.b
                      /\ svm.E = hist.last.before.E

\* C11 witness: the last call of examine_example saw an attempt fail on a
\* pair with eta <= 0, went on to another index and changed alpha there.
C11_Witness ==
    /\ Called
    /\ Len(hist.last.attempts) >= 2
    /\ ~hist.last.attempts[1][2]
    /\ RLe(EtaOf(hist.last.i1, hist.last.attempts[1][1]), R(0))
    /\ hist.last.attempts[Len(hist.last.attempts)][2]
    /\ svm.alpha # hist.last.before.alpha

\* the values the pair update of (i1, i2) has to commit on the object s:
\* the clipped alpha2, the alpha1 that follows from it and the bias chosen
\* among b1, b2 and their mean
ExpectedPair(s, i1, i2) ==
    LET a1 == s.alpha[i1]
        a2 == s.alpha[i2]
        y1 == s.Y[i1]
        y2 == s.Y[i2]
        E1 == s.E[i1]
        E2 == s.E[i2]
        K == s.product_matrix
        et == RSub(RAdd(K[i1][i1], K[i2][i2]), RMul(R(2), K[i1][i2]))
        L == IF y1 = y2 THEN RMax(R(0), RSub(RAdd(a1, a2), s.C))
                        ELSE RMax(R(0), RSub(a2, a1))
        H == IF y1 = y2 THEN RMin(s.C, RAdd(a1, a2))
                        ELSE RMin(s.C, RAdd(s.C, RSub(a2, a1)))
        unc == RAdd(a2, RDiv(RMul(y2, RSub(E1, E2)), et))
        a2n == IF RLt(H, unc) THEN H ELSE IF RLt(unc, L) THEN L ELSE unc
        a1n == RAdd(a1, RMul(RMul(y1, y2), RSub(a2, a2n)))
        b1 == RSub(RSub(RSub(s.b, E1), RMul(RMul(y1, K[i1][i1]), RSub(a1n, a1))),
                   RMul(RMul(y2, K[i2][i1]), RSub(a2n, a2)))
        b2 == RSub(RSub(RSub(s.b, E2), RMul(RMul(y1, K[i1][i2]), RSub(a1n, a1))),
                   RMul(RMul(y2, K[i2][i2]), RSub(a2n, a2)))
    IN  [alpha |-> [k \in 1..s.m |-> IF k = i1 THEN a1n
                                     ELSE IF k = i2 THEN a2n ELSE s.alpha[k]],
         b |-> IF RLt(R(0), a1n) /\ RLt(a1n, s.C) THEN b1
               ELSE IF RLt(R(0), a2n) /\ RLt(a2n, s.C) THEN b2
               ELSE RDiv(RAdd(b1, b2), R(2))]

KKTViolated(s, i) ==
    LET g == RAdd(s.b, RSum([j \in 1..s.m |->
                     RMul(RMul(s.alpha[j], s.Y[j]), s.product_matrix[i][j])]))
        radius == RMul(RSub(g, s.Y[i]), s.Y[i])
        a == s.alpha[i]
    IN  \/ RLt(a, Eps) /\ RLt(radius, R(0))
        \/ RLt(RSub(s.C, Eps), a) /\ RLt(R(0), radius)
        \/ RLe(Eps, a) /\ RLe(a, RSub(s.C, Eps)) /\ RLt(Eps, RAbs(radius))

\* C13: examine_example(i1) on an index that does not satisfy the violation
\* predicate returns False, attempts no pair update and leaves the object,
\* so alpha, b and E, unchanged: for every index whenever examine_example is
\* about to be entered, and in every call that fit made.
C13_NoViolationFrame ==
    /\ pc = "examine" =>
         \A i \in 1..svm.m :
            ~KKTViolated(svm, i) =>
               examine_example(svm, i, [k \in 1..svm.m |-> k]) =
                  [ret |-> FALSE, self |-> svm, attempts |-> <<>>]
    /\ (Called /\ ~KKTViolated(Before, hist.last.i1)) =>
         /\ ~hist.last.ret
         /\ hist.last.attempts = <<>>
         /\ svm.alpha = hist.last.before.alpha
         /\ svm.b = hist.last.before.b
         /\ svm.E = hist.last.before.E

\* C13 witness: the last call of examine_example found an index with a
\* multiplier strictly inside (0, C) that does not violate, while another
\* index has eta > 0 with it, and did nothing.
C13_Witness ==
    /\ Called
    /\ ~KKTViolated(Before, hist.last.i1)
    /\ RLt(R(0), svm.alpha[hist.last.i1]) /\ RLt(svm.alpha[hist.last.i1], svm.C)
    /\ \E j \in 1..svm.m : RLt(R(0), EtaOf(hist.last.i1, j))
    /\ hist.last.attempts = <<>>

\* the indices of the attempts of the last call of examine_example
Attempted == {hist.last.attempts[k][1] : k \in 1..Len(hist.last.attempts)}

\* C14: a call of examine_example on a violating index i1 returns False only
\* after update_alpha_pair(i1, j) was attempted and failed for every j # i1;
\* it never attempts i1 itself, an attempt that succeeds is its last and it
\* then returns True, so a call commits at most one pair update.
C14_ExhaustiveScan ==
    (Called /\ KKTViolated(Before, hist.last.i1)) =>
       LET a == hist.last.attempts
       IN  /\ \A k \in 1..Len(a) : a[k][1] \in (1..svm.m) \ {hist.last.i1}
           /\ \A k \in 1..(Len(a) - 1) : ~a[k][2]
           /\ hist.last.ret <=> (Len(a) > 0 /\ a[Len(a)][2])
           /\ ~hist.last.ret => Attempted = (1..svm.m) \ {hist.last.i1}
           /\ Cardinality({k \in 1..Len(a) : a[k][2]}) <= 1

\* C14 witness: the last call of examine_example was on a violating index of
\* a three-point set, attempted both other indices and returned False.
C14_Witness ==
    /\ Called
    /\ KKTViolated(Before, hist.last.i1)
    /\ svm.m = 3
    /\ ~hist.last.ret
    /\ Cardinality(Attempted) = 2

\* the non-bound indices other than i1 when the last call of examine_example
\* began: eps < alpha[j] < C - eps
Candidates ==
    {j \in (1..svm.m) \ {hist.last.i1} :
        /\ RLt(Eps, hist.last.before.alpha[j])
        /\ RLt(hist.last.before.alpha[j], RSub(svm.C, Eps))}

\* |E[j] - E1| when the last call of examine_example began
Gap(j) ==
    RAbs(RSub(hist.last.before.E[j],
              RSub(function_g(Before, hist.last.i1), svm.Y[hist.last.i1])))

\* C15: in a call of examine_example on a violating index i1 with at least
\* one non-bound index j # i1, the first attempt is with a non-bound index
\* of maximal |E[j] - E1|, and if it succeeds it is the only attempt; with no
\* such index the attempts are those of the shuffled scan alone.
C15_FirstTier ==
    (Called /\ KKTViolated(Before, hist.last.i1)) =>
       LET a == hist.last.attempts
       IN  /\ Candidates # {} =>
                /\ Len(a) >= 1
                /\ a[1][1] \in Candidates
                /\ \A k \in Candidates : RLe(Gap(k), Gap(a[1][1]))
                /\ a[1][2] => Len(a) = 1
           /\ Candidates = {} =>
                \A k, l \in 1..Len(a) : k # l => a[k][1] # a[l][1]

\* C15 witness: the last call of examine_example had two non-bound
\* candidates of different |E[j] - E1| and updated with the larger one.
C15_Witness ==
    /\ Called
    /\ KKTViolated(Before, hist.last.i1)
    /\ \E j, k \in Candidates : RLt(Gap(k), Gap(j))
    /\ hist.last.attempts[1][2]

\* C16: in every state of fit, from the end of init_args on, the dual
\* equality constraint sum_i alpha[i] * y[i] = 0 holds (labels in {-1, +1}).
C16_DualEquality ==
    fitted =>
      RSum([i \in 1..svm.m |-> RMul(svm.alpha[i], svm.Y[i])]) = R(0)

\* C16 witness: the last call of examine_example committed an update on a
\* pair of equal labels and at least three multipliers are non-zero.
C16_Witness ==
    /\ Called
    /\ hist.last.ret
    /\ svm.alpha # hist.last.before.alpha
    /\ svm.Y[hist.last.i1] =
         svm.Y[hist.last.attempts[Len(hist.last.attempts)][1]]
    /\ Cardinality({i \in 1..svm.m : svm.alpha[i] # R(0)}) >= 3

\* C17: once a pass of fit has ended without a successful pair update, no
\* later call of examine_example of that fit succeeds, under any shuffle
\* order: every later pass ends with no update and with the alpha, b and E
\* of that pass, and so does fit.
C17_NoOpFixedPoint ==
    InFit =>
      \A p \in 1..Len(hist.passEnd) :
         hist.passEnd[p].updates = 0 =>
            /\ \A q \in p..Len(hist.passEnd) :
                  /\ hist.passEnd[q].updates = 0
                  /\ hist.passEnd[q].alpha = hist.passEnd[p].alpha
                  /\ hist.passEnd[q].b = hist.passEnd[p].b
                  /\ hist.passEnd[q].E = hist.passEnd[p].E
            /\ hist.updates = 0
            /\ svm.alpha = hist.passEnd[p].alpha
            /\ svm.b = hist.passEnd[p].b
            /\ svm.E = hist.passEnd[p].E

\* C17 witness: fit returned after a pass without update that was followed
\* by another pass, whose last call was on a violating index and attempted
\* at least two partners.
C17_Witness ==
    /\ pc = "done"
    /\ Len(hist.passEnd) >= 2
    /\ hist.passEnd[Len(hist.passEnd) - 1].updates = 0
    /\ KKTViolated(Before, hist.last.i1)
    /\ Len(hist.last.attempts) >= 2

\* the partner index of the successful attempt of the last call
LastPartner == hist.last.attempts[Len(hist.last.attempts)][1]

\* 0 < alpha[i] < C
Interior(i) == RLt(R(0), svm.alpha[i]) /\ RLt(svm.alpha[i], svm.C)

\* C18: after a successful update_alpha_pair(i1, i2) the recomputed E[i1] is
\* 0 if 0 < alpha1_new < C, and otherwise the recomputed E[i2] is 0 if
\* 0 < alpha2_new < C.
C18_BiasZeroesError ==
    (Called /\ hist.last.ret) =>
       IF Interior(hist.last.i1)
         THEN svm.E[hist.last.i1] = R(0)
         ELSE Interior(LastPartner) => svm.E[LastPartner] = R(0)

\* C18 witness: the last update left alpha1 at a bound with a non-zero
\* error and alpha2 strictly inside (0, C) with error 0.
C18_Witness ==
    /\ Called /\ hist.last.ret
    /\ ~Interior(hist.last.i1)
    /\ svm.E[hist.last.i1] # R(0)
    /\ Interior(LastPartner)
    /\ svm.E[LastPartner] = R(0)

\* C19: in every state reached by fit and for every training index i,
\* function_g(i), computed from the Gram matrix, equals the value of
\* decision_function on X[i], computed with kernel calls, in its
\* one-dimensional and its two-dimensional form, and predict(X[i]) is +1
\* exactly when function_g(i) > 0.
C19_TrainInferenceAgree ==
    InFit =>
      \A i \in 1..svm.m :
         LET g == function_g(svm, i)
         IN  /\ g = decision_function(svm, svm.X[i], 1)[1]
             /\ g = decision_function(svm, svm.X, 2)[i]
             /\ predict(svm, svm.X[i]) = 1 <=> RLt(R(0), g)

\* C19 witness: a state of fit under the rbf kernel with a non-zero bias in
\* which function_g is positive on one training index and negative on
\* another of index below it.
C19_Witness ==
    /\ InFit
    /\ svm._kernel = "rbf"
    /\ svm.b # R(0)
    /\ \E i, j \in 1..svm.m :
          /\ j < i
          /\ RLt(R(0), function_g(svm, i))
          /\ RLt(function_g(svm, j), R(0))
====
